---- MODULE Spec2Model ----
(***************************************************************************)
(* Model of the BH1750FVI ambient light sensor driver (src/bh1750fvi.py).  *)
(*                                                                         *)
(* Numbers that are floats in the source (sensitivity, accuracy, the       *)
(* computed MTreg value) are kept as integers in thousandths (Scale), so   *)
(* 0.45 is 450 and 69 is 69000.  The MTreg value also keeps whether the    *)
(* Python object is an int, because the shifts of set_sensitivity are      *)
(* defined on int only.  The lux value returned by get_value is kept as an *)
(* exact fraction num/den.                                                 *)
(*                                                                         *)
(* The I2C bus and the clock are the environment: every write_bytes/read   *)
(* may raise, which ends the running method at that call; each method      *)
(* leaves in `events` the bus and clock calls it issued, in order.         *)
(***************************************************************************)
EXTENDS Integers, Sequences, FiniteSets, TLC

VARIABLES phase, bus_started, sensitivity, mtreg, accuracy, resolution, mode,
          op, arg, outcome, ret, events

vars == <<phase, bus_started, sensitivity, mtreg, accuracy, resolution, mode,
          op, arg, outcome, ret, events>>

fields == <<sensitivity, mtreg, accuracy, resolution, mode>>

(* ------------------------------ constants ------------------------------ *)
Scale == 1000

POWER_DOWN == 0
POWER_ON == 1
RESET == 7
CONTINUOUS_LOW_RES_MODE == 19
CONTINUOUS_HIGH_RES_MODE_1 == 16
CONTINUOUS_HIGH_RES_MODE_2 == 17
ONE_TIME_HIGH_RES_MODE_1 == 32
ONE_TIME_HIGH_RES_MODE_2 == 33
ONE_TIME_LOW_RES_MODE == 35

MEASUREMENT_TIME_H == 64
MEASUREMENT_TIME_L == 96

MTREG_DEFAULT == 69
MTREG_MIN == 31
MTREG_MAX == 254

SENSITIVITY_MIN == 450
SENSITIVITY_MAX == 3680
SENSITIVITY_DEFAULT == 1000

ACCURACY_MIN == 960
ACCURACY_MAX == 1440
ACCURACY_DEFAULT == 1200

list_meas_mode_datasheet_order ==
    << CONTINUOUS_HIGH_RES_MODE_1, CONTINUOUS_HIGH_RES_MODE_2,
       CONTINUOUS_LOW_RES_MODE, ONE_TIME_HIGH_RES_MODE_1,
       ONE_TIME_HIGH_RES_MODE_2, ONE_TIME_LOW_RES_MODE >>

list_meas_mode ==
    << ONE_TIME_HIGH_RES_MODE_1, ONE_TIME_HIGH_RES_MODE_2,
       ONE_TIME_LOW_RES_MODE, CONTINUOUS_HIGH_RES_MODE_1,
       CONTINUOUS_HIGH_RES_MODE_2, CONTINUOUS_LOW_RES_MODE >>

(* A field no statement has assigned yet. *)
Unset == "unset"
NoValue == "none"

(* ------------------------------ bounds --------------------------------- *)
(* Largest set_sensitivity factor and set_accuracy value of the grids, in  *)
(* thousandths.                                                            *)
MaxFactorK == 10000
MaxAccuracyK == 5000

(* --------------------------- Python arithmetic ------------------------- *)
RECURSIVE BitOr(_, _)
BitOr(a, b) ==
    IF a = 0 THEN b
    ELSE IF b = 0 THEN a
    ELSE (IF a % 2 = 1 \/ b % 2 = 1 THEN 1 ELSE 0) + 2 * BitOr(a \div 2, b \div 2)

RECURSIVE BitAnd(_, _)
BitAnd(a, b) ==
    IF a = 0 \/ b = 0 THEN 0
    ELSE (IF a % 2 = 1 /\ b % 2 = 1 THEN 1 ELSE 0) + 2 * BitAnd(a \div 2, b \div 2)

(* list[i] with Python's indexing: 0-based, a negative i counts from the end. *)
PyIndex_position(list, i) == i + 1

PyIndex(list, i) == IF i >= 0 THEN list[i + 1] ELSE list[Len(list) + i + 1]

(* list.index(x) (0-based); -1 stands for the ValueError of a missing x. *)
PyListIndex(list, x) ==
    IF \E i \in 1..Len(list) : list[i] = x
    THEN (CHOOSE i \in 1..Len(list) :
              list[i] = x /\ \A j \in 1..(i - 1) : list[j] # x) - 1
    ELSE 0 - 1

(* int(x) of a float given in thousandths: truncation toward zero. *)
PyInt(k) == IF k >= 0 THEN k \div Scale ELSE 0 - ((0 - k) \div Scale)

(* ------------------------------ bus events ----------------------------- *)
Start == [kind |-> "start", val |-> 0]
W(b) == [kind |-> "write", val |-> b]
Sleep(ms) == [kind |-> "sleep", val |-> ms]
Read == [kind |-> "read", val |-> 2]

(* The bus calls that may raise: a write or a read; f = 0 is no failure.   *)
CanFail(steps, f) ==
    f = 0 \/ (f \in 1..Len(steps) /\ steps[f].kind \in {"write", "read"})

(* The calls issued when call f raises: the method stops at that call.     *)
Attempt_retry(steps, f) ==
    IF f = 0 THEN steps ELSE SubSeq(steps, 1, f) \o << steps[f] >>

Attempt(steps, f) == IF f = 0 THEN steps ELSE SubSeq(steps, 1, f)

BusOutcome(f) == IF f = 0 THEN "ok" ELSE "BusError"

(* ------------------------------ inputs --------------------------------- *)
(* A Python number handed to set_sensitivity: its value in thousandths and *)
(* whether it is an int (only a whole value can be one).                   *)
PyNum(k, isInt) == [k |-> k, int |-> isInt]

Factors(ks) == {PyNum(k, b) : k \in ks, b \in BOOLEAN} \ {PyNum(k, TRUE) : k \in {j \in ks : j % Scale # 0}}

FactorSamples ==
    { PyNum(0 - 1000, TRUE), PyNum(0, FALSE), PyNum(449, FALSE), PyNum(450, FALSE),
      PyNum(1000, TRUE), PyNum(1000, FALSE), PyNum(2000, TRUE), PyNum(2000, FALSE),
      PyNum(3681, FALSE), PyNum(3682, FALSE) }
FactorGrid == Factors(0..MaxFactorK)

AccuracySamples == {0 - 1000, 0, 959, 960, 1200, 1441}
AccuracyGrid == 0..MaxAccuracyK

ResolutionSamples == (0 - 1)..7
AddressSamples == {0, 35, 92, 93}
(* The two bytes a read returns, high byte first.                          *)
ReadSamples == { << 0, 0 >>, << 1, 0 >>, << 2, 88 >>, << 255, 255 >> }
ModeSamples == {POWER_DOWN, ONE_TIME_LOW_RES_MODE, CONTINUOUS_HIGH_RES_MODE_1}

(* --------------------------- set_sensitivity --------------------------- *)
(* valueMTreg = sensitivity * MTREG_DEFAULT: int * int is an int, float *  *)
(* int a float.                                                            *)
valueMTreg(factor) == PyNum(factor.k * MTREG_DEFAULT, factor.int)

(* The value the if/elif/else stores in self.mtreg.                        *)
MtregStored(factor) ==
    LET v == valueMTreg(factor) IN
    IF v.k < MTREG_MIN * Scale THEN PyNum(MTREG_MIN * Scale, TRUE)
    ELSE IF v.k > MTREG_MAX * Scale THEN PyNum(MTREG_MAX * Scale, TRUE)
    ELSE v

(* The value the if/elif/else stores in self.sensitivity.                  *)
SensitivityStored_verbatim(factor) == factor.k

SensitivityStored(factor) ==
    LET v == valueMTreg(factor) IN
    IF v.k < MTREG_MIN * Scale THEN SENSITIVITY_MIN
    ELSE IF v.k > MTREG_MAX * Scale THEN SENSITIVITY_MAX
    ELSE factor.k

(* meas_TimeHighBit >>= 5; meas_TimeHighBit |= MEASUREMENT_TIME_H          *)
meas_TimeHighBit_shift4(m) == BitOr(m \div 16, MEASUREMENT_TIME_H)

meas_TimeHighBit(m) == BitOr(m \div 32, MEASUREMENT_TIME_H)

(* meas_TimeLowBit <<= 3; meas_TimeLowBit >>= 3; |= MEASUREMENT_TIME_L.    *)
(* Python ints do not overflow: the two shifts give m back.                *)
meas_TimeLowBit(m) == BitOr((m * 8) \div 8, MEASUREMENT_TIME_L)

(* The two register writes of set_sensitivity for an int MTreg value; the  *)
(* shift of a float raises TypeError before any write.                     *)
MtregWrites(mt) ==
    IF mt.int
    THEN << W(meas_TimeHighBit(mt.k \div Scale)), W(meas_TimeLowBit(mt.k \div Scale)) >>
    ELSE << >>

(* ----------------------------- set_accuracy ---------------------------- *)
ClampAccuracy_proportional(a) ==
    IF a < ACCURACY_MIN THEN ACCURACY_MIN
    ELSE IF a > ACCURACY_MAX THEN ACCURACY_MAX
    ELSE ACCURACY_MIN + ((a - ACCURACY_MIN) * 4) \div 5

ClampAccuracy_upperOnly(a) ==
    IF a > ACCURACY_MAX THEN 1440 ELSE a

ClampAccuracy(a) ==
    IF a < ACCURACY_MIN THEN 960
    ELSE IF a > ACCURACY_MAX THEN 1440
    ELSE a

(* ------------------------ resolution and address ----------------------- *)
ValidResolution_from0(res) == res \in {0, 1, 2, 3, 4, 5, 6}

ValidResolution(res) == res \in {1, 2, 3, 4, 5, 6}

(* self.list_meas_mode.index(self.resolution) + 1; 0 stands for ValueError *)
ResolutionIndex(r) == PyListIndex(list_meas_mode, r) + 1

InvalidAddress_or(a) == a # 35 \/ a # 92

InvalidAddress(a) == a # 35 /\ a # 92

(* ------------------------------ measurement ---------------------------- *)
(* wait_for_result: the sleep of a measurement in mode m.                  *)
WaitTime_lowBitOnly(m, sens) ==
    LET basetime == IF BitAnd(m, 1) = 1 THEN 16 ELSE 120
    IN  PyInt(basetime * sens)

WaitTime(m, sens) ==
    LET basetime == IF BitAnd(m, 3) = 3 THEN 16 ELSE 120
    IN  PyInt(basetime * sens)

ResetSteps == << W(POWER_ON), W(RESET) >>

(* do_measurement(mode): reset, trigger, wait, read.                       *)
DoMeasurementSteps_noReset(m, sens) ==
    << W(m), Sleep(WaitTime(m, sens)), Read >>

DoMeasurementSteps(m, sens) ==
    ResetSteps \o << W(m), Sleep(WaitTime(m, sens)), Read >>

(* get_result: data[0] is the high byte, data[1] the low byte.             *)
get_result(data) == data[2] + (256 * data[1])

(* light = raw / (accuracy * sensitivity), halved at resolutions 2 and 5.  *)
(* The float is kept as the exact fraction num / (den / Scale^2): num is   *)
(* the raw count and den the divisor in millionths (a product of two       *)
(* numbers in thousandths); light *= 0.5 doubles the divisor.              *)
Lux_halfAt26(raw, acc, sens, idx) ==
    LET light == [num |-> raw, den |-> acc * sens]
    IN  IF idx \in {2, 6} THEN [num |-> light.num, den |-> light.den * 2] ELSE light

Lux(raw, acc, sens, idx) ==
    LET light == [num |-> raw, den |-> acc * sens]
    IN  IF idx \in {2, 5} THEN [num |-> light.num, den |-> light.den * 2] ELSE light

(* self.mode after reset() when bus call f of the method raised.           *)
ModeAfterReset(f) == IF f = 1 THEN POWER_ON ELSE RESET

(* ------------------------------- state --------------------------------- *)
(* Before the constructor runs there is no instance: no field is assigned. *)
Init ==
    /\ phase = "new"
    /\ bus_started = FALSE
    /\ sensitivity = Unset
    /\ mtreg = Unset
    /\ accuracy = Unset
    /\ resolution = Unset
    /\ mode = Unset
    /\ op = NoValue
    /\ arg = NoValue
    /\ outcome = NoValue
    /\ ret = NoValue
    /\ events = << >>

(* What a finished call leaves for its caller to see.                      *)
Returns(name, a, how, value, issued) ==
    /\ op' = name
    /\ arg' = a
    /\ outcome' = how
    /\ ret' = value
    /\ events' = issued

(* The default arguments of set_sensitivity(), set_accuracy() and          *)
(* set_resolution().                                                       *)
DefaultFactor == PyNum(SENSITIVITY_DEFAULT, TRUE)
DefaultResolution == PyIndex(list_meas_mode, 1 - 1)

(* ----------------------------- constructor ----------------------------- *)
(* __init__(drvname, addr): startRaises is start() raising                 *)
(* PeripheralError, which is printed and swallowed; f is the bus call that *)
(* raises (0: none).  An exception leaving __init__ leaves no instance.    *)
Construct(a, startRaises, f) ==
    /\ phase = "new"
    /\ IF InvalidAddress(a)
       THEN /\ f = 0 /\ ~startRaises
            /\ phase' = "failed"
            /\ Returns("__init__", a, "ValueError", NoValue, << >>)
            /\ UNCHANGED <<bus_started, sensitivity, mtreg, accuracy, resolution, mode>>
       ELSE LET steps == << Start, W(POWER_DOWN) >> \o MtregWrites(MtregStored(DefaultFactor))
            IN  /\ CanFail(steps, f)
                /\ bus_started' = ~startRaises
                /\ Returns("__init__", a, BusOutcome(f), NoValue, Attempt(steps, f))
                /\ IF f = 0
                   THEN /\ phase' = "ready"
                        /\ mode' = POWER_DOWN
                        /\ mtreg' = MtregStored(DefaultFactor)
                        /\ sensitivity' = SensitivityStored(DefaultFactor)
                        /\ accuracy' = ClampAccuracy(ACCURACY_DEFAULT)
                        /\ resolution' = DefaultResolution
                   ELSE /\ phase' = "failed"
                        /\ UNCHANGED <<sensitivity, mtreg, accuracy, resolution, mode>>

(* ------------------------------- methods ------------------------------- *)
set_mode(m, f) ==
    /\ phase = "ready"
    /\ CanFail(<< W(m) >>, f)
    /\ mode' = m
    /\ Returns("set_mode", m, BusOutcome(f), NoValue, Attempt(<< W(m) >>, f))
    /\ UNCHANGED <<phase, bus_started, sensitivity, mtreg, accuracy, resolution>>

reset_defaults(f) ==
    /\ phase = "ready"
    /\ CanFail(ResetSteps, f)
    /\ mode' = ModeAfterReset(f)
    /\ sensitivity' = SENSITIVITY_DEFAULT
    /\ mtreg' = PyNum(MTREG_DEFAULT * Scale, TRUE)
    /\ Returns("reset", NoValue, BusOutcome(f), NoValue, Attempt(ResetSteps, f))
    /\ UNCHANGED <<phase, bus_started, accuracy, resolution>>

reset(f) ==
    /\ phase = "ready"
    /\ CanFail(ResetSteps, f)
    /\ mode' = ModeAfterReset(f)
    /\ Returns("reset", NoValue, BusOutcome(f), NoValue, Attempt(ResetSteps, f))
    /\ UNCHANGED <<phase, bus_started, sensitivity, mtreg, accuracy, resolution>>

(* The fields are stored before the shifts and the writes, so they change  *)
(* also when the call raises.                                              *)
set_sensitivity(factor, f) ==
    /\ phase = "ready"
    /\ LET mt == MtregStored(factor)
           steps == MtregWrites(mt)
       IN  /\ CanFail(steps, f)
           /\ mtreg' = mt
           /\ sensitivity' = SensitivityStored(factor)
           /\ Returns("set_sensitivity", factor,
                      IF mt.int THEN BusOutcome(f) ELSE "TypeError",
                      NoValue, Attempt(steps, f))
    /\ UNCHANGED <<phase, bus_started, accuracy, resolution, mode>>

get_sensitivity ==
    /\ phase = "ready"
    /\ Returns("get_sensitivity", NoValue, "ok", sensitivity, << >>)
    /\ UNCHANGED <<phase, bus_started, sensitivity, mtreg, accuracy, resolution, mode>>

set_accuracy_powersDown(a) ==
    /\ phase = "ready"
    /\ accuracy' = ClampAccuracy(a)
    /\ mode' = POWER_DOWN
    /\ Returns("set_accuracy", a, "ok", NoValue, << W(POWER_DOWN) >>)
    /\ UNCHANGED <<phase, bus_started, sensitivity, mtreg, resolution>>

set_accuracy(a) ==
    /\ phase = "ready"
    /\ accuracy' = ClampAccuracy(a)
    /\ Returns("set_accuracy", a, "ok", NoValue, << >>)
    /\ UNCHANGED <<phase, bus_started, sensitivity, mtreg, resolution, mode>>

get_accuracy ==
    /\ phase = "ready"
    /\ Returns("get_accuracy", NoValue, "ok", accuracy, << >>)
    /\ UNCHANGED <<phase, bus_started, sensitivity, mtreg, accuracy, resolution, mode>>

set_resolution(res) ==
    /\ phase = "ready"
    /\ IF ValidResolution(res)
       THEN /\ resolution' = PyIndex(list_meas_mode, res - 1)
            /\ Returns("set_resolution", res, "ok", NoValue, << >>)
       ELSE /\ UNCHANGED resolution
            /\ Returns("set_resolution", res, "ValueError", NoValue, << >>)
    /\ UNCHANGED <<phase, bus_started, sensitivity, mtreg, accuracy, mode>>

get_resolution ==
    /\ phase = "ready"
    /\ IF ResolutionIndex(resolution) = 0
       THEN Returns("get_resolution", NoValue, "ValueError", NoValue, << >>)
       ELSE Returns("get_resolution", NoValue, "ok", ResolutionIndex(resolution), << >>)
    /\ UNCHANGED <<phase, bus_started, sensitivity, mtreg, accuracy, resolution, mode>>

(* get_value(): data is the two bytes the sensor answers, f the bus call   *)
(* of do_measurement that raises (0: none).                                *)
get_value(data, f) ==
    /\ phase = "ready"
    /\ LET steps == DoMeasurementSteps(resolution, sensitivity)
           raw_value == get_result(data)
           idx == ResolutionIndex(resolution)
       IN  /\ CanFail(steps, f)
           /\ mode' = ModeAfterReset(f)
           /\ IF f # 0
              THEN Returns("get_value", NoValue, "BusError", NoValue, Attempt(steps, f))
              ELSE IF accuracy * sensitivity = 0
              THEN Returns("get_value", data, "ZeroDivisionError", NoValue, steps)
              ELSE IF idx = 0
              THEN Returns("get_value", data, "ValueError", NoValue, steps)
              ELSE Returns("get_value", data, "ok",
                           Lux(raw_value, accuracy, sensitivity, idx), steps)
    /\ UNCHANGED <<phase, bus_started, sensitivity, mtreg, accuracy, resolution>>

(* --------------------------- specifications ---------------------------- *)
Next ==
    \/ \E a \in AddressSamples, s \in BOOLEAN, f \in 0..4 : Construct(a, s, f)
    \/ \E m \in ModeSamples, f \in 0..1 : set_mode(m, f)
    \/ \E f \in 0..2 : reset(f)
    \/ \E factor \in FactorSamples, f \in 0..2 : set_sensitivity(factor, f)
    \/ get_sensitivity
    \/ \E a \in AccuracySamples : set_accuracy(a)
    \/ get_accuracy
    \/ \E res \in ResolutionSamples : set_resolution(res)
    \/ get_resolution
    \/ \E data \in ReadSamples, f \in 0..5 : get_value(data, f)

Spec == Init /\ [][Next]_vars

(* The instance a successful BH1750FVI(drvname) leaves: the state Construct *)
(* reaches with the default address and no bus call raising.               *)
InitReady ==
    /\ phase = "ready"
    /\ bus_started = TRUE
    /\ sensitivity = SensitivityStored(DefaultFactor)
    /\ mtreg = MtregStored(DefaultFactor)
    /\ accuracy = ClampAccuracy(ACCURACY_DEFAULT)
    /\ resolution = DefaultResolution
    /\ mode = POWER_DOWN
    /\ op = "__init__"
    /\ arg = 35
    /\ outcome = "ok"
    /\ ret = NoValue
    /\ events = << Start, W(POWER_DOWN) >> \o MtregWrites(MtregStored(DefaultFactor))

(* set_sensitivity on every factor of the grid of thousandths.  What it    *)
(* stores depends on its argument only, so it is applied to the fresh      *)
(* instance, and the getter reads the result back.                         *)
NextSensitivity ==
    \/ /\ op = "__init__"
       /\ \E factor \in FactorGrid, f \in 0..2 : set_sensitivity(factor, f)
    \/ /\ op = "set_sensitivity"
       /\ get_sensitivity

SpecSensitivity == InitReady /\ [][NextSensitivity]_vars

(* set_accuracy on every value of the grid of thousandths, likewise.       *)
NextAccuracy ==
    \/ /\ op = "__init__"
       /\ \E a \in AccuracyGrid : set_accuracy(a)
    \/ /\ op = "set_accuracy"
       /\ get_accuracy

SpecAccuracy == InitReady /\ [][NextAccuracy]_vars

(* ------------------------- helpers of the claims ----------------------- *)
IsWrite(e) == e.kind = "write"
IsRead(e) == e.kind = "read"

(* The bytes written by a method, in order.                                *)
RECURSIVE WritesOf(_)
WritesOf(evs) ==
    IF evs = << >> THEN << >>
    ELSE (IF IsWrite(Head(evs)) THEN << Head(evs).val >> ELSE << >>) \o WritesOf(Tail(evs))

(* The opcodes of the six resolutions in the documented order 1..6.        *)
OpcodeOrder == << 32, 33, 35, 16, 17, 19 >>

(* round() of a non-negative float in thousandths (half to even).          *)
PyRound(k) ==
    LET q == k \div 1000
        r == k % 1000
    IN  IF r < 500 THEN q
        ELSE IF r > 500 THEN q + 1
        ELSE IF q % 2 = 0 THEN q ELSE q + 1

Getters == {"get_accuracy", "get_sensitivity", "get_resolution"}

(* -------------------------------- claims ------------------------------- *)

(* C1: every get_value() that completes issued exactly write 0x01, write   *)
(* 0x07, write of the selected resolution's opcode, one sleep, one 2-byte  *)
(* read, in this order; and whatever a method issued, a read in it is the  *)
(* fifth call, after its own Power On, Reset, trigger and sleep, so no two *)
(* reads share a measurement cycle.                                        *)
C1_FullCyclePerRead ==
    /\ (op = "get_value" /\ outcome = "ok") =>
          /\ Len(events) = 5
          /\ events[5] = [kind |-> "read", val |-> 2]
    /\ \A i \in 1..Len(events) :
          IsRead(events[i]) =>
              /\ i = 5
              /\ op = "get_value"
              /\ events[1] = [kind |-> "write", val |-> 1]
              /\ events[2] = [kind |-> "write", val |-> 7]
              /\ events[3] = [kind |-> "write", val |-> resolution]
              /\ events[4].kind = "sleep"

C1_Witness ==
    /\ op = "get_value"
    /\ outcome = "ok"
    /\ resolution = 35
    /\ WritesOf(events) = << 1, 7, 35 >>

(* C2 as stated: after set_sensitivity(factor) with factor in [0, 10] the  *)
(* stored mtreg is in [31, 254] and the stored sensitivity in [0.45, 3.68].*)
C2_SensitivityInRange ==
    (op = "set_sensitivity" /\ arg.k \in 0..10000) =>
        /\ mtreg.k >= 31000 /\ mtreg.k <= 254000
        /\ sensitivity >= 450 /\ sensitivity <= 3680

(* C3 as stated: after set_sensitivity(factor) with factor in [0.449,      *)
(* 3.681] the stored mtreg is the integer round(factor * 69).              *)
C3_MtregIsRounded ==
    (op = "set_sensitivity" /\ arg.k \in 449..3681) =>
        mtreg.k = 1000 * PyRound(arg.k * 69)

(* C4: a get_value() that completes returns raw / (accuracy * sensitivity) *)
(* with raw = low + 256 * high of the two bytes read, times 0.5 exactly at *)
(* resolution index 2 or 5; raw 600, accuracy 1.2, sensitivity 1.0 give    *)
(* 500 at index 1 and 250 at index 2.                                      *)
C4_LuxFormula ==
    (op = "get_value" /\ outcome = "ok") =>
        LET raw == arg[2] + 256 * arg[1]
            idx == CHOOSE i \in 1..6 : OpcodeOrder[i] = resolution
            halves == IF idx \in {2, 5} THEN 2 ELSE 1
        IN  /\ ret.num = raw
            /\ ret.den = accuracy * sensitivity * halves
            /\ (raw = 600 /\ accuracy = 1200 /\ sensitivity = 1000 /\ idx = 1)
                   => ret.num * 1000000 = 500 * ret.den
            /\ (raw = 600 /\ accuracy = 1200 /\ sensitivity = 1000 /\ idx = 2)
                   => ret.num * 1000000 = 250 * ret.den

C4_Witness ==
    /\ op = "get_value"
    /\ outcome = "ok"
    /\ arg = << 2, 88 >>
    /\ accuracy = 1200
    /\ sensitivity = 1000
    /\ resolution = 33
    /\ ret.num * 1000000 = 250 * ret.den

(* C5: set_accuracy(value) with value in [0, 5] stores 0.96 when value <   *)
(* 0.96, 1.44 when value > 1.44 and value itself otherwise; the stored     *)
(* accuracy of an instance is always in [0.96, 1.44].                      *)
C5_AccuracyClamp ==
    /\ phase = "ready" => (accuracy >= 960 /\ accuracy <= 1440)
    /\ (op = "set_accuracy" /\ arg \in 0..5000) =>
          /\ arg < 960 => accuracy = 960
          /\ arg > 1440 => accuracy = 1440
          /\ (arg >= 960 /\ arg <= 1440) => accuracy = arg

C5_Witness ==
    /\ op = "set_accuracy"
    /\ arg = 1300
    /\ accuracy = 1300

(* C6: set_resolution(r) with r in 1..6 succeeds and selects opcode number *)
(* r of 0x20, 0x21, 0x23, 0x10, 0x11, 0x13; get_value and the getters keep *)
(* the selection, the third call of a get_value is the write of the        *)
(* selected opcode, and get_resolution returns the r that was selected.    *)
C6_ResolutionRoundTrip ==
    [][ /\ (op' = "set_resolution" /\ arg' \in 1..6) =>
              /\ outcome' = "ok"
              /\ resolution' = OpcodeOrder[arg']
        /\ (op' \in Getters \cup {"get_value"}) => resolution' = resolution
        /\ (op' = "get_value" /\ Len(events') >= 3) =>
              events'[3] = [kind |-> "write", val |-> resolution]
        /\ op' = "get_resolution" =>
              /\ outcome' = "ok"
              /\ OpcodeOrder[ret'] = resolution
      ]_vars

C6_Witness ==
    /\ op = "get_resolution"
    /\ ret = 6
    /\ resolution = 19

(* C7: set_resolution(r) with r outside 1..6 raises ValueError, issues no  *)
(* bus call and leaves sensitivity, mtreg, accuracy, the selected          *)
(* resolution and the recorded mode as they were.                          *)
C7_InvalidResolutionRejected ==
    [][ (op' = "set_resolution" /\ arg' \notin 1..6) =>
            /\ outcome' = "ValueError"
            /\ events' = << >>
            /\ sensitivity' = sensitivity
            /\ mtreg' = mtreg
            /\ accuracy' = accuracy
            /\ resolution' = resolution
            /\ mode' = mode
      ]_vars

C7_Witness ==
    /\ op = "set_resolution"
    /\ arg = 0
    /\ outcome = "ValueError"
    /\ resolution = 33

(* C8 as stated: construction succeeds if and only if the address is 0x23  *)
(* or 0x5C; any other address fails with ValueError before the bus is      *)
(* started and before any write.                                           *)
C8_SucceedsIffLegalAddress ==
    op = "__init__" =>
        /\ (outcome = "ok") <=> (arg \in {35, 92})
        /\ arg \notin {35, 92} =>
              (outcome = "ValueError" /\ events = << >> /\ ~bus_started)

(* C8 amended: construction raises ValueError if and only if the address   *)
(* is neither 0x23 nor 0x5C, before the bus is started and before any      *)
(* write; with a legal address it succeeds unless one of its register      *)
(* writes raises, and then the bus error ends it.                          *)
C8_AddressValidation ==
    op = "__init__" =>
        /\ (outcome = "ValueError") <=> (arg \notin {35, 92})
        /\ outcome = "ValueError" =>
              (events = << >> /\ ~bus_started /\ phase = "failed")
        /\ arg \in {35, 92} =>
              /\ outcome \in {"ok", "BusError"}
              /\ (outcome = "ok") <=> (phase = "ready")
              /\ outcome = "BusError" => IsWrite(events[Len(events)])
              /\ outcome = "ok" => Len(WritesOf(events)) = 3

C8_Witness ==
    /\ op = "__init__"
    /\ arg = 92
    /\ outcome = "ok"
    /\ phase = "ready"

(* C9 as stated: construction with a legal address, whether or not the bus *)
(* start raised, writes exactly 0x00, 0x42, 0x65 and ends with sensitivity *)
(* 1.0, mtreg 69, accuracy 1.2, resolution index 1 (opcode 0x20).          *)
C9_ConstructionSequence ==
    (op = "__init__" /\ arg \in {35, 92}) =>
        /\ WritesOf(events) = << 0, 66, 101 >>
        /\ phase = "ready"
        /\ sensitivity = 1000
        /\ mtreg.k = 69000
        /\ accuracy = 1200
        /\ resolution = 32

(* C9 amended: a construction with a legal address in which no register    *)
(* write raises, whether or not the bus start raised, writes exactly 0x00, *)
(* 0x42, 0x65 and ends with sensitivity 1.0, mtreg 69, accuracy 1.2,       *)
(* resolution index 1 (opcode 0x20); if a write raises, the writes issued  *)
(* are that sequence up to the raising write and there is no instance.     *)
C9_ConstructionSequenceUnlessBusError ==
    (op = "__init__" /\ arg \in {35, 92}) =>
        /\ events[1].kind = "start"
        /\ outcome = "ok" =>
              /\ WritesOf(events) = << 0, 66, 101 >>
              /\ phase = "ready"
              /\ sensitivity = 1000
              /\ mtreg.k = 69000
              /\ accuracy = 1200
              /\ resolution = 32
              /\ OpcodeOrder[1] = resolution
        /\ outcome # "ok" =>
              /\ outcome = "BusError"
              /\ phase = "failed"
              /\ WritesOf(events) \in { << 0 >>, << 0, 66 >>, << 0, 66, 101 >> }

C9_Witness ==
    /\ op = "__init__"
    /\ outcome = "ok"
    /\ ~bus_started
    /\ WritesOf(events) = << 0, 66, 101 >>

(* C10: get_accuracy, get_sensitivity, get_resolution, get_value and reset *)
(* leave sensitivity, mtreg, accuracy and the selected resolution as they  *)
(* were, and each getter returns the stored value, so repeated getters     *)
(* with no setter in between return the same value.                        *)
C10_ReadersKeepCalibration ==
    [][ /\ (op' \in Getters \cup {"get_value", "reset"}) =>
              /\ sensitivity' = sensitivity
              /\ mtreg' = mtreg
              /\ accuracy' = accuracy
              /\ resolution' = resolution
        /\ op' = "get_accuracy" => ret' = accuracy
        /\ op' = "get_sensitivity" => ret' = sensitivity
        /\ op' = "get_resolution" => OpcodeOrder[ret'] = resolution
      ]_vars

C10_Witness ==
    /\ op = "reset"
    /\ sensitivity = 2000
    /\ accuracy = 960
    /\ resolution = 17

(* C11 as stated: a set_sensitivity that completes with a stored mtreg in  *)
(* 31..254 issued exactly two writes, first (mtreg >> 5) | 0x40, then      *)
(* (mtreg & 0x1F) | 0x60, so the first byte is in 0x40..0x47 and the       *)
(* second in 0x60..0x7F, also for mtreg >= 128.                            *)
C11_TaggedHalves ==
    (op = "set_sensitivity" /\ outcome = "ok"
        /\ mtreg.k >= 31000 /\ mtreg.k <= 254000) =>
        LET m == mtreg.k \div 1000
        IN  /\ events = << [kind |-> "write", val |-> (m \div 32) + 64],
                           [kind |-> "write", val |-> (m % 32) + 96] >>
            /\ events[1].val \in 64..71
            /\ events[2].val \in 96..127

ClampedProduct(sens) ==
    IF sens * 69 < 31000 THEN 31000
    ELSE IF sens * 69 > 254000 THEN 254000
    ELSE sens * 69

(* C13 as stated: in every state of an instance the stored pair satisfies  *)
(* mtreg = clamp(sensitivity * 69, 31, 254), also at the boundary pairs.   *)
C13_MtregIsClampedProduct ==
    phase = "ready" => mtreg.k = ClampedProduct(sensitivity)

(* C13 amended: in every state of an instance mtreg = sensitivity * 69     *)
(* exactly when the last factor was stored unclamped, and the stored pair  *)
(* is exactly (31, 0.45) or (254, 3.68) when it was clamped; for these two *)
(* pairs mtreg differs from clamp(sensitivity * 69, 31, 254) (31.05 and    *)
(* 253.92) by less than 0.1, so the relation holds only after rounding.    *)
C13_MtregConsistentWithSensitivity ==
    phase = "ready" =>
        /\ \/ /\ mtreg.k = sensitivity * 69
              /\ mtreg.k >= 31000 /\ mtreg.k <= 254000
           \/ /\ mtreg.k = 31000 /\ sensitivity = 450
           \/ /\ mtreg.k = 254000 /\ sensitivity = 3680
        /\ mtreg.k - ClampedProduct(sensitivity) < 100
        /\ ClampedProduct(sensitivity) - mtreg.k < 100
        /\ op = "set_sensitivity" =>
              /\ arg.k * 69 < 31000 => (mtreg.k = 31000 /\ sensitivity = 450)
              /\ arg.k * 69 > 254000 => (mtreg.k = 254000 /\ sensitivity = 3680)
              /\ (arg.k * 69 >= 31000 /\ arg.k * 69 <= 254000) =>
                    (mtreg.k = arg.k * 69 /\ sensitivity = arg.k)

C13_Witness ==
    /\ op = "set_sensitivity"
    /\ arg.k = 3682
    /\ mtreg.k = 254000
    /\ sensitivity = 3680

(* The calls a set_mode, reset or get_value issues when no call raises;    *)
(* the duration of the sleep is the one found in the calls issued.         *)
FullSequence ==
    IF op = "set_mode" THEN << [kind |-> "write", val |-> arg] >>
    ELSE IF op = "reset"
    THEN << [kind |-> "write", val |-> 1], [kind |-> "write", val |-> 7] >>
    ELSE << [kind |-> "write", val |-> 1], [kind |-> "write", val |-> 7],
            [kind |-> "write", val |-> resolution],
            [kind |-> "sleep", val |-> IF Len(events) >= 4 THEN events[4].val ELSE 0],
            [kind |-> "read", val |-> 2] >>

(* C14: a set_mode, reset or get_value (with the do_measurement in it) in  *)
(* which a bus write or read raises ends with that error at the raising    *)
(* call: the calls issued are the method's sequence up to and including    *)
(* that call, each once, nothing after it, and get_value returns no value. *)
C14_BusErrorStopsOperation ==
    op \in {"set_mode", "reset", "get_value"} =>
        /\ outcome \in {"ok", "BusError"}
        /\ outcome = "ok" => events = FullSequence
        /\ outcome = "BusError" =>
              /\ Len(events) \in 1..Len(FullSequence)
              /\ events = SubSeq(FullSequence, 1, Len(events))
              /\ events[Len(events)].kind \in {"write", "read"}
              /\ ret = "none"

C14_Witness ==
    /\ op = "get_value"
    /\ outcome = "BusError"
    /\ Len(events) = 3
    /\ events[3] = [kind |-> "write", val |-> 33]
    /\ ret = "none"

(* C15: set_accuracy(value), for any value, issues no bus write, no bus    *)
(* read and no sleep, and leaves sensitivity, mtreg, the selected          *)
(* resolution and the recorded mode as they were.                          *)
C15_SetAccuracyTouchesOnlyAccuracy ==
    [][ op' = "set_accuracy" =>
            /\ events' = << >>
            /\ outcome' = "ok"
            /\ sensitivity' = sensitivity
            /\ mtreg' = mtreg
            /\ resolution' = resolution
            /\ mode' = mode
      ]_vars

C15_Witness ==
    /\ op = "set_accuracy"
    /\ arg = 0 - 1000
    /\ accuracy = 960
    /\ sensitivity = 2000
    /\ resolution = 35
    /\ mode = 7

(* C16: in every state of an instance, whatever arguments set_sensitivity  *)
(* and set_accuracy were given (zero and negative ones included), accuracy *)
(* and sensitivity are positive, so accuracy * sensitivity > 0 and the     *)
(* division of get_value never divides by zero.                            *)
C16_DivisorPositive ==
    phase = "ready" =>
        /\ accuracy > 0
        /\ sensitivity > 0
        /\ accuracy * sensitivity > 0
        /\ op = "get_value" => outcome # "ZeroDivisionError"
        /\ (op = "get_value" /\ outcome = "ok") => ret.den > 0

C16_Witness ==
    /\ op = "set_sensitivity"
    /\ arg.k = 0 - 1000
    /\ sensitivity = 450
    /\ accuracy = 960

(* C17: in every state of an instance, after any sequence of operations    *)
(* (failed set_resolution calls, reset and get_value included), the        *)
(* selected resolution is one of the six measurement opcodes, so           *)
(* get_resolution returns a value in 1..6 and never raises, and the        *)
(* trigger written by get_value is one of the six opcodes.                 *)
C17_ResolutionAlwaysValid ==
    phase = "ready" =>
        /\ resolution \in {32, 33, 35, 16, 17, 19}
        /\ op = "get_resolution" => (outcome = "ok" /\ ret \in 1..6)
        /\ op = "get_value" =>
              /\ outcome # "ValueError"
              /\ Len(events) >= 3 => events[3].val \in {32, 33, 35, 16, 17, 19}

C17_Witness ==
    /\ op = "set_resolution"
    /\ arg = 7
    /\ outcome = "ValueError"
    /\ resolution = 16
    /\ mode = 7

====
